---- MODULE Spec2Model ----
(***************************************************************************)
(* A model of whisper-rs' WhisperContext (src/src/whisper_ctx.rs): the     *)
(* safe wrapper around a native whisper_context pointer.                   *)
(*                                                                         *)
(* Two specifications share the pure operators that model the wrapper's    *)
(* functions:                                                              *)
(*   SpecCalls  - tokenize / token_to_str / new as functions of their      *)
(*                arguments and of what the native layer answers;          *)
(*   Spec       - the life cycle of contexts and states on a native heap,  *)
(*                with several threads calling through shared handles.     *)
(***************************************************************************)
EXTENDS Integers, Sequences, FiniteSets, TLC

VARIABLES
    call,       \* SpecCalls: the last wrapper call, its arguments and result
    text_out,   \* SpecCalls: result of joining token_to_str over a tokenize result
    ctx_mem,    \* Spec: native whisper_context objects, by pointer
    free_calls, \* Spec: how often whisper_free was called, by pointer argument
    state_mem,  \* Spec: native whisper_state objects, by pointer
    contexts,   \* Spec: the live WhisperContext values
    wstates,    \* Spec: the live WhisperState values
    pc,         \* Spec: per thread, the wrapper call it is inside of
    prev,       \* Spec: the latest property-accessor observation
    uaf         \* Spec: a native call was handed a freed or null context

vars == <<call, text_out, ctx_mem, free_calls, state_mem, contexts, wstates,
          pc, prev, uaf>>

-----------------------------------------------------------------------------
(* Bounds *)

\* longest text, in bytes
MaxTextLen == 3
\* the small max_tokens values are 0..MaxSmallTokens
MaxSmallTokens == 3
\* native context pointers the allocator can hand out
MaxCtx == 1
\* native state pointers the allocator can hand out
MaxStates == 2

-----------------------------------------------------------------------------
(* Machine integers.  A usize is 64 bits wide and is kept as four 16-bit   *)
(* limbs, most significant first; a c_int is a signed 32-bit integer.      *)

usize(n) == <<0, 0, n \div (2^16), n % (2^16)>>

usize_MAX == <<2^16 - 1, 2^16 - 1, 2^16 - 1, 2^16 - 1>>

\* `x as c_int` for x: usize: the low 32 bits, read as two's complement
as_c_int(u) ==
    IF u[3] >= 2^15 THEN (u[3] - 2^16) * (2^16) + u[4]
                    ELSE u[3] * (2^16) + u[4]

\* `r as usize` for r: c_int: sign extension to 64 bits
as_usize(r) ==
    IF r >= 0 THEN <<0, 0, r \div (2^16), r % (2^16)>>
              ELSE <<2^16 - 1, 2^16 - 1, (r \div (2^16)) % (2^16), r % (2^16)>>

RECURSIVE limbs_le(_, _, _)
limbs_le(a, b, i) ==
    IF i > 4 THEN TRUE
    ELSE IF a[i] < b[i] THEN TRUE
    ELSE IF a[i] > b[i] THEN FALSE
    ELSE limbs_le(a, b, i + 1)

usize_le(a, b) == limbs_le(a, b, 1)

-----------------------------------------------------------------------------
(* Strings are sequences of bytes.                                         *)

Bytes == {0, 97, 98, 195, 169}

HasNul(s) == \E i \in 1..Len(s) : s[i] = 0

IsCont(b) == b >= 128 /\ b <= 191

\* core::str::from_utf8's acceptance, as used by CStr::to_str
RECURSIVE Utf8ValidFrom(_, _)
Utf8ValidFrom(s, i) ==
    IF i > Len(s) THEN TRUE
    ELSE LET b == s[i]
             c(k) == IF i + k <= Len(s) THEN s[i + k] ELSE 0
         IN  IF b < 128 THEN Utf8ValidFrom(s, i + 1)
             ELSE IF b >= 194 /\ b <= 223
                  THEN IsCont(c(1)) /\ Utf8ValidFrom(s, i + 2)
             ELSE IF b >= 224 /\ b <= 239
                  THEN /\ IsCont(c(1)) /\ IsCont(c(2))
                       /\ (b = 224 => c(1) >= 160)
                       /\ (b = 237 => c(1) <= 159)
                       /\ Utf8ValidFrom(s, i + 3)
             ELSE IF b >= 240 /\ b <= 244
                  THEN /\ IsCont(c(1)) /\ IsCont(c(2)) /\ IsCont(c(3))
                       /\ (b = 240 => c(1) >= 144)
                       /\ (b = 244 => c(1) <= 143)
                       /\ Utf8ValidFrom(s, i + 4)
             ELSE FALSE

Utf8Valid(s) == Utf8ValidFrom(s, 1)

\* the values a &str argument can take: valid UTF-8, interior NULs allowed
Texts ==
    {s \in UNION {[1..n -> Bytes] : n \in 0..MaxTextLen} : Utf8Valid(s)}

\* the bytes a C reader sees: up to, not including, the first NUL
RECURSIVE CStrFrom(_, _)
CStrFrom(buf, i) ==
    IF i > Len(buf) \/ buf[i] = 0 THEN <<>>
    ELSE <<buf[i]>> \o CStrFrom(buf, i + 1)

CStr_from_ptr(buf) == CStrFrom(buf, 1)

-----------------------------------------------------------------------------
(* The native layer, as far as the wrapper relies on it.  A loaded model   *)
(* has a vocabulary (token id -> bytes) and a convention for reporting     *)
(* that the output buffer is too small.                                    *)

Vocabs == {"whole", "bytes"}

\* "whole": each entry is a complete character sequence; 'b' alone is a gap.
\* "bytes": byte-level entries; the two bytes of U+00E9 are separate tokens.
Vocab(v) ==
    IF v = "whole"
    THEN (1 :> <<97>>) @@ (2 :> <<97, 98>>) @@ (3 :> <<195, 169>>)
    ELSE (1 :> <<97>>) @@ (2 :> <<98>>) @@ (3 :> <<97, 98>>)
         @@ (4 :> <<195>>) @@ (5 :> <<169>>)

\* whisper.cpp has signalled a too-small buffer as -1 and as -(tokens needed)
FailConvs == {"minus_one", "neg_count"}

IsPrefixAt(w, s, i) ==
    /\ i + Len(w) - 1 <= Len(s)
    /\ \A k \in 1..Len(w) : s[i + k - 1] = w[k]

\* greedy longest match; a byte no entry starts at is skipped (unknown token)
RECURSIVE greedy(_, _, _)
greedy(voc, s, i) ==
    IF i > Len(s) THEN <<>>
    ELSE LET cands == {id \in DOMAIN voc : IsPrefixAt(voc[id], s, i)}
         IN  IF cands = {} THEN greedy(voc, s, i + 1)
             ELSE LET best == CHOOSE id \in cands :
                                  \A o \in cands : Len(voc[o]) <= Len(voc[id])
                  IN  <<best>> \o greedy(voc, s, i + Len(voc[best]))

RECURSIVE concat(_, _)
concat(voc, toks) ==
    IF toks = <<>> THEN <<>>
    ELSE voc[Head(toks)] \o concat(voc, Tail(toks))

\* the vocabulary has no gap for s: the greedy tokens spell s
Encodable(v, s) == concat(Vocab(v), greedy(Vocab(v), s, 1)) = s

\* the number of tokens s needs
Needed(v, s) == Len(greedy(Vocab(v), s, 1))

\* int whisper_tokenize(ctx, text, tokens, n_max_tokens): what it returns and
\* what it wrote to the front of `tokens`
whisper_tokenize(v, conv, ctext, n_max_tokens) ==
    LET res == greedy(Vocab(v), CStr_from_ptr(ctext), 1)
    IN  IF n_max_tokens < Len(res)
        THEN [ret |-> IF conv = "minus_one" THEN -1 ELSE -Len(res),
              written |-> <<>>]
        ELSE [ret |-> Len(res), written |-> res]

\* const char * whisper_token_to_str(ctx, token): <<>> stands for a null
\* pointer, anything else is the NUL-terminated buffer pointed to
whisper_token_to_str(v, token) ==
    IF token \in DOMAIN Vocab(v) THEN Append(Vocab(v)[token], 0) ELSE <<>>

-----------------------------------------------------------------------------
(* The wrapper's functions, as functions of their arguments and of what    *)
(* the native layer returns.                                               *)

\* impl From<NulError> for WhisperError
From_NulError == "InvalidArgument"

\* impl From<Utf8Error> for WhisperError
From_Utf8Error == "EncodingError"

\* the request is for 2^47 bytes or more (n >= 2^45), as much as the whole
\* user address space of a 64-bit target: no allocator grants it
alloc_impossible(n) == n[1] > 0 \/ n[2] >= 2^13

\* memory is requested from the allocator (n > 0; a vector of capacity 0
\* allocates nothing): whether the request is granted depends on the memory
\* the process may use
alloc_may_fail(n) == n # <<0, 0, 0, 0>>

\* std::ffi::CString::new(s) for s: &str: the ways it can end.  It first
\* allocates Len(s) + 1 bytes and copies s, and the process aborts
\* (handle_alloc_error) when the allocator refuses; only then does it look
\* for a NUL byte
CString_new(s) ==
    (IF alloc_may_fail(usize(Len(s) + 1))
     THEN {[tag |-> "Abort", val |-> <<>>]} ELSE {})
    \cup
    {IF HasNul(s) THEN [tag |-> "Err", val |-> <<>>]
                  ELSE [tag |-> "Ok", val |-> Append(s, 0)]}

\* Vec::<WhisperToken>::with_capacity(n) panics with "capacity overflow"
\* when n * size_of::<c_int>() exceeds isize::MAX, that is when n >= 2^61
capacity_overflow(n) == n[1] >= 2^13

\* the ways Vec::<WhisperToken>::with_capacity(n) can end: the buffer is
\* allocated ("Ok"), the capacity computation panics ("Panic"), or the
\* allocator refuses and handle_alloc_error aborts the process ("Abort")
with_capacity(n) ==
    IF capacity_overflow(n) THEN {"Panic"}
    ELSE IF alloc_impossible(n) THEN {"Abort"}
    ELSE IF alloc_may_fail(n) THEN {"Ok", "Abort"}
    ELSE {"Ok"}

Result(tag, err, called, ret, len, tokens, ctx) ==
    [tag |-> tag, err |-> err, native_called |-> called, native_ret |-> ret,
     len |-> len, tokens |-> tokens, ctx |-> ctx]

\* the initialised elements a vector of length len exposes, when the native
\* call wrote `written` to the front of its buffer
Exposed(written, len) ==
    IF usize_le(usize(Len(written)), len) THEN written
    ELSE SubSeq(written, 1, as_c_int(len))

\* the ways `unsafe { tokens.set_len(new_len) }` can end on a vector of
\* `capacity` slots.  new_len > capacity breaks the function's contract
\* (undefined behaviour): a build without debug assertions stores the
\* length ("Ok"), a build with them aborts in the precondition check
set_len(new_len, capacity) ==
    IF usize_le(new_len, capacity) THEN {"Ok"} ELSE {"Ok", "Abort"}

\* tokenize's ends before the native call, when CString::new(text) ended
\* as c: its abort, its error through `?`, and the ends of
\* Vec::with_capacity(max_tokens)
tokenize_early(c, max_tokens) ==
    IF c.tag = "Abort"
    THEN {Result("Abort", "memory allocation failed", FALSE, 0, usize(0),
                 <<>>, 0)}
    ELSE IF c.tag = "Err"
    THEN {Result("Err", From_NulError, FALSE, 0, usize(0), <<>>, 0)}
    ELSE {Result("Panic", "capacity overflow", FALSE, 0, usize(0), <<>>, 0) :
             o \in with_capacity(max_tokens) \cap {"Panic"}}
         \cup
         {Result("Abort", "memory allocation failed", FALSE, 0, usize(0),
                 <<>>, 0) :
             o \in with_capacity(max_tokens) \cap {"Abort"}}

\* tokenize's ends after the native call returned n, when the vector's
\* length is then set to new_len
tokenize_late(n, new_len, max_tokens) ==
    IF n.ret = -1
    THEN {Result("Err", "InvalidText", TRUE, n.ret, usize(0), <<>>, 0)}
    ELSE {IF o = "Ok"
          THEN Result("Ok", "none", TRUE, n.ret, new_len,
                      Exposed(n.written, new_len), 0)
          ELSE Result("Abort", "set_len beyond capacity", TRUE, n.ret,
                      usize(0), <<>>, 0) :
             o \in set_len(new_len, max_tokens)}

\* the output buffer tokenize hands to the native call: `slots` elements
\* allocated by Vec::with_capacity(max_tokens), and the capacity announced
\* for it, `max_tokens as c_int`
tokenize_buffer(max_tokens) ==
    [slots |-> max_tokens, n_max_tokens |-> as_c_int(max_tokens)]

\* WhisperContext::tokenize(&self, text, max_tokens): the set of ways the
\* call can end.  It has several elements because the allocations depend on
\* the memory the process may use, and where set_len is called outside its
\* contract.
tokenize(v, conv, text, max_tokens) ==
    UNION {tokenize_early(c, max_tokens)
           \cup
           (IF c.tag = "Ok" /\ "Ok" \in with_capacity(max_tokens)
            THEN LET n == whisper_tokenize(v, conv, c.val,
                                           as_c_int(max_tokens))
                 IN  tokenize_late(n, as_usize(n.ret), max_tokens)
            ELSE {}) : c \in CString_new(text)}

\* WhisperContext::token_to_cstr(&self, token_id)
token_to_cstr(v, token_id) ==
    LET ret == whisper_token_to_str(v, token_id)
    IN  IF ret = <<>>
        THEN [tag |-> "Err", err |-> "NullPointer", val |-> <<>>]
        ELSE [tag |-> "Ok", err |-> "none", val |-> CStr_from_ptr(ret)]

\* WhisperContext::token_to_str(&self, token_id)
token_to_str(v, token_id) ==
    LET c_str == token_to_cstr(v, token_id)
    IN  IF c_str.tag = "Err" THEN c_str
        ELSE IF ~Utf8Valid(c_str.val)
        THEN [tag |-> "Err", err |-> From_Utf8Error, val |-> <<>>]
        ELSE [tag |-> "Ok", err |-> "none", val |-> c_str.val]

\* the value of
\* tokens.into_iter().map(|t| ctx.token_to_str(t).unwrap()).collect().join("")
\* when no allocation is refused: unwrap panics on the first token whose
\* token_to_str is an Err, with that error in the panic message
RECURSIVE map_unwrap_join(_, _)
map_unwrap_join(v, toks) ==
    IF toks = <<>> THEN [tag |-> "Ok", err |-> "none", val |-> <<>>]
    ELSE LET h == token_to_str(v, Head(toks))
             t == map_unwrap_join(v, Tail(toks))
         IN  IF h.tag = "Err" THEN [h EXCEPT !.tag = "Panic"]
             ELSE IF t.tag = "Panic" THEN t
             ELSE [tag |-> "Ok", err |-> "none", val |-> h.val \o t.val]

\* the ways the round trip's join can end on a vector whose elements are
\* toks.  collect() asks for its buffer, one slot for each token, before the
\* first token is converted, and join allocates the string: the process
\* aborts when the allocator refuses.  Nothing is allocated for an empty
\* token list
join_token_strs(v, toks) ==
    {map_unwrap_join(v, toks)}
    \cup
    (IF alloc_may_fail(usize(Len(toks)))
     THEN {[tag |-> "Abort", err |-> "memory allocation failed",
            val |-> <<>>]}
     ELSE {})

\* collect::<Vec<&str>>() over len tokens asks for len slots of 16 bytes and
\* panics with "capacity overflow" when that exceeds isize::MAX, that is
\* when len >= 2^59
collect_capacity_overflow(len) == len[1] >= 2^11

\* the ways the round trip's join can end on the vector tokenize returned,
\* of length len and initialised elements toks.  A length beyond the
\* initialised elements comes from set_len outside its contract: collect
\* either panics on the size of its request or the iteration reads past the
\* buffer (undefined behaviour: a fault, or elements of any value)
round_trip_join(v, toks, len) ==
    IF len = usize(Len(toks)) THEN join_token_strs(v, toks)
    ELSE IF collect_capacity_overflow(len)
    THEN {[tag |-> "Panic", err |-> "capacity overflow", val |-> <<>>]}
    ELSE {[tag |-> "Abort", err |-> "memory allocation failed", val |-> <<>>],
          [tag |-> "Abort", err |-> "invalid memory reference", val |-> <<>>],
          [tag |-> "Panic", err |-> "NullPointer", val |-> <<>>],
          [tag |-> "Panic", err |-> From_Utf8Error, val |-> <<>>]}

\* WhisperContext::new(path): the ways the call can end; native_ret is what
\* whisper_init_from_file_no_state answers when it is called (0 is the null
\* pointer)
new(path, native_ret) ==
    {IF path_cstr.tag = "Abort"
     THEN Result("Abort", "memory allocation failed", FALSE, 0, usize(0),
                 <<>>, 0)
     ELSE IF path_cstr.tag = "Err"
     THEN Result("Err", From_NulError, FALSE, 0, usize(0), <<>>, 0)
     ELSE IF native_ret = 0
     THEN Result("Err", "InitError", TRUE, native_ret, usize(0), <<>>, 0)
     ELSE Result("Ok", "none", TRUE, native_ret, usize(0), <<>>, native_ret) :
        path_cstr \in CString_new(path)}

-----------------------------------------------------------------------------
(* SpecCalls: one call of a wrapper function, on arguments and native      *)
(* answers drawn from the sets below, and then, for a tokenize result,     *)
(* the round trip through token_to_str.                                    *)

MaxTokensInputs ==
    {usize(n) : n \in 0..MaxSmallTokens}
    \cup {<<0, 0, 2^15, 0>>,            \* 2^31
          <<0, 0, 2^16 - 1, 2^16 - 1>>, \* 2^32 - 1
          <<0, 1, 0, 0>>,               \* 2^32
          <<0, 1, 0, 1>>,               \* 2^32 + 1
          <<1, 0, 0, 0>>,               \* 2^48
          <<2^13 - 1, 2^16 - 1, 2^16 - 1, 2^16 - 1>>, \* 2^61 - 1
          usize_MAX}

NoCall ==
    [op |-> "none", text |-> <<>>, max_tokens |-> usize(0), vocab |-> "whole",
     conv |-> "minus_one",
     res |-> Result("none", "none", FALSE, 0, usize(0), <<>>, 0)]

NoText == [tag |-> "none", err |-> "none", val |-> <<>>]

CallTokenize ==
    /\ call.op = "none"
    /\ \E text \in Texts, max_tokens \in MaxTokensInputs,
          v \in Vocabs, conv \in FailConvs :
          \E res \in tokenize(v, conv, text, max_tokens) :
             call' = [op |-> "tokenize", text |-> text,
                      max_tokens |-> max_tokens, vocab |-> v, conv |-> conv,
                      res |-> res]
    /\ text_out' = NoText
    /\ UNCHANGED <<ctx_mem, free_calls, state_mem, contexts, wstates, pc,
                   prev, uaf>>

\* the round trip of test_tokenize_round_trip on the vector tokenize
\* returned
CallJoin ==
    /\ call.op = "tokenize"
    /\ call.res.tag = "Ok"
    /\ text_out = NoText
    /\ \E out \in round_trip_join(call.vocab, call.res.tokens, call.res.len) :
          text_out' = out
    /\ UNCHANGED <<call, ctx_mem, free_calls, state_mem, contexts, wstates,
                   pc, prev, uaf>>

CallNew ==
    /\ call.op = "none"
    /\ \E path \in Texts, native_ret \in {0, 1} :
          \E res \in new(path, native_ret) :
             call' = [NoCall EXCEPT !.op = "new", !.text = path,
                                    !.res = res]
    /\ text_out' = NoText
    /\ UNCHANGED <<ctx_mem, free_calls, state_mem, contexts, wstates, pc,
                   prev, uaf>>

StrResult(r, called, ret) ==
    Result(r.tag, r.err, called, ret, usize(0), r.val, 0)

\* WhisperContext::new_from_buffer(buffer)
new_from_buffer(native_ret) ==
    IF native_ret = 0
    THEN Result("Err", "InitError", TRUE, native_ret, usize(0), <<>>, 0)
    ELSE Result("Ok", "none", TRUE, native_ret, usize(0), <<>>, native_ret)

\* a variant of create_state without the null check
create_state_unchecked(self_ctx, native_ret) ==
    Result("Ok", "none", TRUE, native_ret, usize(0), <<>>, native_ret)

\* WhisperContext::create_state(&self); .ctx of the result is the state pointer
create_state(self_ctx, native_ret) ==
    IF native_ret = 0
    THEN Result("Err", "InitError", TRUE, native_ret, usize(0), <<>>, 0)
    ELSE Result("Ok", "none", TRUE, native_ret, usize(0), <<>>, native_ret)

\* WhisperContext::model_type_readable(&self): the ways the call can end;
\* native_ret is <<>> for null.  r_str.to_string() allocates the String
\* (nothing for an empty one) and the process aborts when the allocator
\* refuses
model_type_readable(native_ret) ==
    IF native_ret = <<>>
    THEN {[tag |-> "Err", err |-> "NullPointer", val |-> <<>>]}
    ELSE LET c_str == CStr_from_ptr(native_ret)
         IN  IF ~Utf8Valid(c_str)
             THEN {[tag |-> "Err", err |-> From_Utf8Error, val |-> <<>>]}
             ELSE {[tag |-> "Ok", err |-> "none", val |-> c_str]}
                  \cup
                  (IF alloc_may_fail(usize(Len(c_str)))
                   THEN {[tag |-> "Abort",
                          err |-> "memory allocation failed", val |-> <<>>]}
                   ELSE {})

CallNewFromBuffer ==
    /\ call.op = "none"
    /\ \E native_ret \in {0, 1} :
          call' = [NoCall EXCEPT !.op = "new_from_buffer",
                                 !.res = new_from_buffer(native_ret)]
    /\ text_out' = NoText
    /\ UNCHANGED <<ctx_mem, free_calls, state_mem, contexts, wstates, pc,
                   prev, uaf>>

CallCreateState ==
    /\ call.op = "none"
    /\ \E native_ret \in {0, 1, 2} :
          call' = [NoCall EXCEPT !.op = "create_state",
                                 !.res = create_state(1, native_ret)]
    /\ text_out' = NoText
    /\ UNCHANGED <<ctx_mem, free_calls, state_mem, contexts, wstates, pc,
                   prev, uaf>>

\* token ids 0..6: some are in a vocabulary, some in none
CallTokenToStr ==
    /\ call.op = "none"
    /\ \E v \in Vocabs, token_id \in 0..6, op \in {"token_to_str", "token_to_cstr"} :
          LET native_ret == whisper_token_to_str(v, token_id)
              r == IF op = "token_to_str" THEN token_to_str(v, token_id)
                   ELSE token_to_cstr(v, token_id)
          IN  call' = [NoCall EXCEPT
                          !.op = op, !.vocab = v, !.max_tokens = usize(token_id),
                          !.res = StrResult(r, TRUE,
                                            IF native_ret = <<>> THEN 0 ELSE 1)]
    /\ text_out' = NoText
    /\ UNCHANGED <<ctx_mem, free_calls, state_mem, contexts, wstates, pc,
                   prev, uaf>>

\* the native answer: null, "", "a", or a byte that is not UTF-8
CallModelTypeReadable ==
    /\ call.op = "none"
    /\ \E native_ret \in {<<>>, <<0>>, <<97, 0>>, <<195, 0>>} :
          \E r \in model_type_readable(native_ret) :
             call' = [NoCall EXCEPT
                         !.op = "model_type_readable", !.text = native_ret,
                         !.res = StrResult(r, TRUE,
                                           IF native_ret = <<>> THEN 0 ELSE 1)]
    /\ text_out' = NoText
    /\ UNCHANGED <<ctx_mem, free_calls, state_mem, contexts, wstates, pc,
                   prev, uaf>>

-----------------------------------------------------------------------------
(* Spec: contexts and states on the native heap.  Native context pointers  *)
(* are 1..MaxCtx, native state pointers 1..MaxStates, 0 is the null        *)
(* pointer; a native allocation fails when no pointer is left, or for any   *)
(* other reason.                                                           *)

CtxPtrs == 1..MaxCtx

StatePtrs == 1..MaxStates

Threads == {"t1", "t2"}

\* the model files the caller has: one English-only, one multilingual
Models == {"tiny.en", "tiny"}

VocabOf(m) == IF m = "tiny.en" THEN "whole" ELSE "bytes"

ConvOf(m) == IF m = "tiny.en" THEN "minus_one" ELSE "neg_count"

\* the property-accessor catalogue, by native entry point
Accessors == {"n_vocab", "is_multilingual", "token_lang"}

AccessorArgs(acc) == IF acc = "token_lang" THEN {0, 1} ELSE {0}

\* what the native accessor reads from a live context holding model m
native_accessor(acc, m, arg) ==
    CASE acc = "n_vocab"         -> IF m = "tiny.en" THEN 51864 ELSE 51865
      [] acc = "is_multilingual" -> IF m = "tiny.en" THEN 0 ELSE 1
      [] acc = "token_lang"      -> (IF m = "tiny.en" THEN 50257 ELSE 50258)
                                        + 1 + arg

\* a read through a dangling pointer can produce any of these
GarbageValues == {0, 1, 51864}

\* the wrapper's accessor methods return the native value as it is, except
\* is_multilingual, which returns `native_val != 0` (true is written 1, false 0)
accessor(acc, native_val) ==
    IF acc = "is_multilingual" THEN (IF native_val # 0 THEN 1 ELSE 0)
    ELSE native_val

NoCtxMem == [st |-> "unalloc", model |-> "none", timings |-> "none"]

FreedCtxMem == [st |-> "freed", model |-> "none", timings |-> "none"]

NoStateMem == [st |-> "unalloc", ctx |-> 0]

Idle == [op |-> "idle", ctx |-> 0]

NoPrev == [thread |-> "none", ctx |-> 0, acc |-> "none", arg |-> 0, val |-> 0]

\* a native call dereferences ctx: fine only for a live context
Dangling(p) == p = 0 \/ ctx_mem[p].st # "live"

\* the lowest context pointer the native allocator has not handed out
FreshCtx == IF \E p \in CtxPtrs : ctx_mem[p].st = "unalloc"
            THEN {CHOOSE p \in CtxPtrs :
                      /\ ctx_mem[p].st = "unalloc"
                      /\ \A q \in CtxPtrs : ctx_mem[q].st = "unalloc" => p <= q}
            ELSE {}

FreshState == IF \E s \in StatePtrs : state_mem[s].st = "unalloc"
              THEN {CHOOSE s \in StatePtrs :
                        /\ state_mem[s].st = "unalloc"
                        /\ \A q \in StatePtrs : state_mem[q].st = "unalloc" => s <= q}
              ELSE {}

\* WhisperState::new(ctx, ptr)
WhisperState_new(ctx, ptr) == [ctx |-> ctx, ptr |-> ptr]

\* the context pointers each function passes to whisper_free before it
\* returns: the constructors and create_state pass none
new_frees(path, native_ret) == <<>>

\* a variant of new_from_buffer that builds a temporary WhisperContext around
\* the pointer and lets it go out of scope
new_from_buffer_frees_temporary(native_ret) ==
    IF native_ret # 0 THEN <<native_ret>> ELSE <<>>

new_from_buffer_frees(native_ret) == <<>>

\* a variant of create_state that releases the context when the native
\* allocation of the state fails
create_state_frees_on_error(self_ctx, native_ret) ==
    IF native_ret = 0 THEN <<self_ctx>> ELSE <<>>

create_state_frees(self_ctx, native_ret) == <<>>

\* a variant of drop that releases nothing
drop_forgets(self_ctx) == <<>>

\* <WhisperContext as Drop>::drop: the pointers it passes to whisper_free
drop(self_ctx) == <<self_ctx>>

\* the lifetime of a WhisperState: it borrows the context it was created from
Borrows(ws, h) == ws.ctx = h.ctx

\* void whisper_free(ctx), for each pointer of `ptrs` in turn
RECURSIVE whisper_free(_, _)
whisper_free(mem, ptrs) ==
    IF ptrs = <<>> THEN mem
    ELSE LET p == Head(ptrs)
         IN  whisper_free(IF p \in CtxPtrs /\ mem[p].st = "live"
                          THEN [mem EXCEPT ![p] = FreedCtxMem] ELSE mem,
                          Tail(ptrs))

RECURSIVE count_frees(_, _)
count_frees(cnt, ptrs) ==
    IF ptrs = <<>> THEN cnt
    ELSE count_frees([cnt EXCEPT ![Head(ptrs)] = @ + 1], Tail(ptrs))

\* freeing what is not live, or twice in one go
RECURSIVE bad_free(_, _)
bad_free(mem, ptrs) ==
    IF ptrs = <<>> THEN FALSE
    ELSE \/ (Head(ptrs) # 0 /\ mem[Head(ptrs)].st # "live")
         \/ bad_free(whisper_free(mem, <<Head(ptrs)>>), Tail(ptrs))

-----------------------------------------------------------------------------
(* Actions of Spec *)

CallsUnchanged == UNCHANGED <<call, text_out>>

\* WhisperContext::new(path) on thread t.  When the call aborts the process
\* in CString::new nothing was loaded and no handle exists: the step changes
\* nothing.
New(t) ==
    /\ pc[t].op = "idle"
    /\ \E path \in {<<97>>, <<97, 0, 98>>}, native_ret \in {0} \cup FreshCtx :
          \E res \in new(path, native_ret) :
          LET loaded == IF res.native_called /\ native_ret # 0
                        THEN [ctx_mem EXCEPT ![native_ret] =
                                  [st |-> "live", model |-> "tiny.en",
                                   timings |-> "loaded"]]
                        ELSE ctx_mem
              freed == new_frees(path, native_ret)
          IN  /\ ctx_mem' = whisper_free(loaded, freed)
              /\ free_calls' = count_frees(free_calls, freed)
              /\ uaf' = (uaf \/ bad_free(loaded, freed))
              /\ contexts' = IF res.tag = "Ok"
                             THEN contexts \cup {[ctx |-> res.ctx]}
                             ELSE contexts
    /\ UNCHANGED <<state_mem, wstates, pc, prev>>
    /\ CallsUnchanged

\* WhisperContext::new_from_buffer(buffer) on thread t
NewFromBuffer(t) ==
    /\ pc[t].op = "idle"
    /\ \E native_ret \in {0} \cup FreshCtx :
          LET res == new_from_buffer(native_ret)
              loaded == IF native_ret # 0
                        THEN [ctx_mem EXCEPT ![native_ret] =
                                  [st |-> "live", model |-> "tiny",
                                   timings |-> "loaded"]]
                        ELSE ctx_mem
              freed == new_from_buffer_frees(native_ret)
          IN  /\ ctx_mem' = whisper_free(loaded, freed)
              /\ free_calls' = count_frees(free_calls, freed)
              /\ uaf' = (uaf \/ bad_free(loaded, freed))
              /\ contexts' = IF res.tag = "Ok"
                             THEN contexts \cup {[ctx |-> res.ctx]}
                             ELSE contexts
    /\ UNCHANGED <<state_mem, wstates, pc, prev>>
    /\ CallsUnchanged

\* the methods a thread can be inside of while others run; "lookup" stands
\* for tokenize, token_to_str, token_to_cstr and model_type_readable, which
\* read the model and leave the native heap as it is
SharedOps == {"create_state", "print_timings", "reset_timings", "lookup"}

\* thread t enters a method through a shared reference to a WhisperContext,
\* handing self.ctx to the native layer
Begin(t) ==
    /\ pc[t].op = "idle"
    /\ \E h \in contexts, op \in SharedOps :
          /\ pc' = [pc EXCEPT ![t] = [op |-> op, ctx |-> h.ctx]]
          /\ uaf' = (uaf \/ Dangling(h.ctx))
    /\ UNCHANGED <<ctx_mem, free_calls, state_mem, contexts, wstates, prev>>
    /\ CallsUnchanged

\* create_state returns on thread t
CreateStateRet(t) ==
    /\ pc[t].op = "create_state"
    /\ \E native_ret \in {0} \cup FreshState :
          LET self_ctx == pc[t].ctx
              res == create_state(self_ctx, native_ret)
              freed == create_state_frees(self_ctx, native_ret)
          IN  /\ state_mem' = IF native_ret # 0
                              THEN [state_mem EXCEPT ![native_ret] =
                                        [st |-> "live", ctx |-> self_ctx]]
                              ELSE state_mem
              /\ wstates' = IF res.tag = "Ok"
                            THEN wstates \cup {WhisperState_new(self_ctx, res.ctx)}
                            ELSE wstates
              /\ ctx_mem' = whisper_free(ctx_mem, freed)
              /\ free_calls' = count_frees(free_calls, freed)
              /\ uaf' = (uaf \/ Dangling(self_ctx) \/ bad_free(ctx_mem, freed))
    /\ pc' = [pc EXCEPT ![t] = Idle]
    /\ UNCHANGED <<contexts, prev>>
    /\ CallsUnchanged

\* print_timings returns on thread t: the counters were read and printed
PrintTimingsRet(t) ==
    /\ pc[t].op = "print_timings"
    /\ uaf' = (uaf \/ Dangling(pc[t].ctx))
    /\ pc' = [pc EXCEPT ![t] = Idle]
    /\ UNCHANGED <<ctx_mem, free_calls, state_mem, contexts, wstates, prev>>
    /\ CallsUnchanged

\* reset_timings returns on thread t: the counters were written
ResetTimingsRet(t) ==
    /\ pc[t].op = "reset_timings"
    /\ uaf' = (uaf \/ Dangling(pc[t].ctx))
    /\ ctx_mem' = IF Dangling(pc[t].ctx) THEN ctx_mem
                  ELSE [ctx_mem EXCEPT ![pc[t].ctx].timings = "reset"]
    /\ pc' = [pc EXCEPT ![t] = Idle]
    /\ UNCHANGED <<free_calls, state_mem, contexts, wstates, prev>>
    /\ CallsUnchanged

\* tokenize, token_to_str, token_to_cstr or model_type_readable returns
LookupRet(t) ==
    /\ pc[t].op = "lookup"
    /\ uaf' = (uaf \/ Dangling(pc[t].ctx))
    /\ pc' = [pc EXCEPT ![t] = Idle]
    /\ UNCHANGED <<ctx_mem, free_calls, state_mem, contexts, wstates, prev>>
    /\ CallsUnchanged

\* a property accessor called on thread t
Accessor(t) ==
    /\ pc[t].op = "idle"
    /\ \E h \in contexts, acc \in Accessors :
       \E arg \in AccessorArgs(acc) :
       \E native_val \in IF Dangling(h.ctx) THEN GarbageValues
                         ELSE {native_accessor(acc, ctx_mem[h.ctx].model, arg)} :
          /\ prev' = [thread |-> t, ctx |-> h.ctx, acc |-> acc, arg |-> arg,
                      val |-> accessor(acc, native_val)]
          /\ uaf' = (uaf \/ Dangling(h.ctx))
    /\ UNCHANGED <<ctx_mem, free_calls, state_mem, contexts, wstates, pc>>
    /\ CallsUnchanged

\* a WhisperState goes out of scope: whisper_free_state(ptr)
DropState ==
    /\ \E ws \in wstates :
          /\ wstates' = wstates \ {ws}
          /\ state_mem' = [state_mem EXCEPT ![ws.ptr].st = "freed"]
    /\ UNCHANGED <<ctx_mem, free_calls, contexts, pc, prev, uaf>>
    /\ CallsUnchanged

\* a WhisperContext goes out of scope; the borrow checker allows it only
\* when no call is running on it and no WhisperState borrows it
DropContext ==
    /\ \E h \in contexts :
          /\ \A t \in Threads : pc[t].ctx # h.ctx
          /\ \A ws \in wstates : ~Borrows(ws, h)
          /\ contexts' = contexts \ {h}
          /\ ctx_mem' = whisper_free(ctx_mem, drop(h.ctx))
          /\ free_calls' = count_frees(free_calls, drop(h.ctx))
          /\ uaf' = (uaf \/ bad_free(ctx_mem, drop(h.ctx)))
    /\ UNCHANGED <<state_mem, wstates, pc, prev>>
    /\ CallsUnchanged

Init ==
    /\ call = NoCall
    /\ text_out = NoText
    /\ ctx_mem = [p \in CtxPtrs |-> NoCtxMem]
    /\ free_calls = [p \in 0..MaxCtx |-> 0]
    /\ state_mem = [s \in StatePtrs |-> NoStateMem]
    /\ contexts = {}
    /\ wstates = {}
    /\ pc = [t \in Threads |-> Idle]
    /\ prev = NoPrev
    /\ uaf = FALSE

Next ==
    \/ \E t \in Threads : New(t)
    \/ \E t \in Threads : NewFromBuffer(t)
    \/ \E t \in Threads : Begin(t)
    \/ \E t \in Threads : CreateStateRet(t)
    \/ \E t \in Threads : PrintTimingsRet(t)
    \/ \E t \in Threads : ResetTimingsRet(t)
    \/ \E t \in Threads : LookupRet(t)
    \/ \E t \in Threads : Accessor(t)
    \/ DropState
    \/ DropContext

Spec == Init /\ [][Next]_vars

NextCalls ==
    \/ CallTokenize
    \/ CallJoin
    \/ CallNew
    \/ CallNewFromBuffer
    \/ CallCreateState
    \/ CallTokenToStr
    \/ CallModelTypeReadable

SpecCalls == Init /\ [][NextCalls]_vars

-----------------------------------------------------------------------------
(* Properties *)

\* C1: the native context is never freed while a native state created from
\* it is still alive: every live whisper_state belongs to a live
\* whisper_context.
C1_ContextOutlivesStates ==
    \A s \in StatePtrs :
        state_mem[s].st = "live" => ctx_mem[state_mem[s].ctx].st = "live"

\* a context was freed after two states created from it had been destroyed
C1_Witness ==
    \E p \in CtxPtrs :
        /\ ctx_mem[p].st = "freed"
        /\ Cardinality({s \in StatePtrs : state_mem[s] = [st |-> "freed", ctx |-> p]}) >= 2

\* C2: whisper_free is never called with null; a pointer the native loader
\* never returned, or whose WhisperContext is still alive, has not been
\* passed to whisper_free; a loaded pointer whose WhisperContext is gone has
\* been passed to it exactly once; and no native call ever received a
\* pointer that was freed before.
C2_FreedExactlyOnce ==
    /\ free_calls[0] = 0
    /\ ~uaf
    /\ \A p \in CtxPtrs :
          /\ ctx_mem[p].st = "unalloc" => free_calls[p] = 0
          /\ [ctx |-> p] \in contexts =>
                 ctx_mem[p].st = "live" /\ free_calls[p] = 0
          /\ (ctx_mem[p].st # "unalloc" /\ [ctx |-> p] \notin contexts) =>
                 ctx_mem[p].st = "freed" /\ free_calls[p] = 1

\* a context was loaded and dropped, and create_state was never called
C2_Witness ==
    /\ \E p \in CtxPtrs : ctx_mem[p].st = "freed" /\ free_calls[p] = 1
    /\ \A s \in StatePtrs : state_mem[s].st = "unalloc"

\* C3: tokenize(text, max_tokens) and new(path) on a string that holds a NUL
\* byte return Err(InvalidArgument) without calling the native layer,
\* whatever max_tokens is.
C3_NulRejectedBeforeNative ==
    (call.op \in {"tokenize", "new"} /\ HasNul(call.text)) =>
        /\ call.res.tag = "Err"
        /\ call.res.err = "InvalidArgument"
        /\ ~call.res.native_called

\* max_tokens is smaller than the number of tokens the text needs
TooSmall(c) == ~usize_le(usize(Needed(c.vocab, c.text)), c.max_tokens)

\* C4: whenever max_tokens is smaller than the number of tokens the
\* (NUL-free) text needs, tokenize returns Err(InvalidText), the wrapper's
\* TokenizationOverflow, whichever failure value the native tokenizer uses.
C4_OverflowIsAnError ==
    (call.op = "tokenize" /\ ~HasNul(call.text) /\ TooSmall(call)) =>
        call.res.tag = "Err" /\ call.res.err = "InvalidText"

\* C5: whenever tokenize returns Ok, the length of the vector is the
\* non-negative count the native call returned, it is at most max_tokens,
\* and every element the vector exposes was written by the native call.
C5_LenIsReportedCount ==
    (call.op = "tokenize" /\ call.res.tag = "Ok") =>
        /\ call.res.native_ret >= 0
        /\ call.res.len = as_usize(call.res.native_ret)
        /\ usize_le(call.res.len, call.max_tokens)
        /\ call.res.len = usize(Len(call.res.tokens))

\* C6: a null pointer from the native layer makes new, new_from_buffer and
\* create_state return Err(InitError) with no handle built, and makes
\* token_to_str, token_to_cstr and model_type_readable return
\* Err(NullPointer) with no string; a handle that is built holds a non-null
\* pointer.
C6_NullIsChecked ==
    /\ call.op \in {"new", "new_from_buffer", "create_state"} =>
          /\ (call.res.native_called /\ call.res.native_ret = 0) =>
                 /\ call.res.tag = "Err"
                 /\ call.res.err = "InitError"
                 /\ call.res.ctx = 0
          /\ call.res.tag = "Ok" => call.res.ctx # 0
    /\ call.op \in {"token_to_str", "token_to_cstr", "model_type_readable"} =>
          (call.res.native_ret = 0 =>
                 /\ call.res.tag = "Err"
                 /\ call.res.err = "NullPointer"
                 /\ call.res.tokens = <<>>)

\* create_state got a null pointer from whisper_init_state
C6_Witness ==
    /\ call.op = "create_state"
    /\ call.res.native_called
    /\ call.res.native_ret = 0
    /\ call.res.tag = "Err"

\* a tokenize call on a NUL-free text the vocabulary can encode, with a
\* max_tokens that is large enough for it
RoundTripCase ==
    /\ call.op = "tokenize"
    /\ ~HasNul(call.text)
    /\ Encodable(call.vocab, call.text)
    /\ ~TooSmall(call)

\* C7: for every NUL-free text the vocabulary can encode and every
\* max_tokens large enough for it, tokenize succeeds, and joining
\* token_to_str of each returned token, in order, gives back the text.
C7_RoundTrip ==
    RoundTripCase =>
        /\ call.res.tag = "Ok"
        /\ text_out.tag # "none" =>
               text_out.tag = "Ok" /\ text_out.val = call.text

\* C8: a property accessor that returns for the same context, the same
\* accessor and the same argument as the latest accessor call before it, on
\* whichever thread that was and whatever ran in between, returns the same
\* value.
C8_AccessorsStable ==
    [][(/\ prev.acc # "none"
        /\ prev'.ctx = prev.ctx
        /\ prev'.acc = prev.acc
        /\ prev'.arg = prev.arg) => prev'.val = prev.val]_vars

\* an accessor returned on thread t2 while thread t1 is inside reset_timings
\* on the same context, whose counters were reset before and which has a
\* live state
C8_Witness ==
    /\ prev.thread = "t2"
    /\ prev.acc = "token_lang"
    /\ pc["t1"] = [op |-> "reset_timings", ctx |-> prev.ctx]
    /\ ctx_mem[prev.ctx].timings = "reset"
    /\ \E s \in StatePtrs : state_mem[s] = [st |-> "live", ctx |-> prev.ctx]

\* C9: every call of a fallible wrapper function ends with Ok or Err.
C9_ReturnsAValue ==
    call.op # "none" => call.res.tag \in {"Ok", "Err"}

\* C10: no step taken through a shared reference changes the native state of
\* a context: a context that is live before and after a step is the same
\* before and after.
C10_SharedCallsLeaveContextUnchanged ==
    [][\A p \in CtxPtrs :
          (ctx_mem[p].st = "live" /\ ctx_mem'[p].st = "live") =>
              ctx_mem'[p] = ctx_mem[p]]_vars

\* C11: for every max_tokens with which tokenize reaches the native call,
\* the capacity it announces, max_tokens as c_int, is non-negative and is
\* at most the number of token slots allocated for the output buffer.
C11_CapacityFitsBuffer ==
    (call.op = "tokenize" /\ call.res.native_called) =>
        LET buf == tokenize_buffer(call.max_tokens)
        IN  /\ buf.n_max_tokens >= 0
            /\ usize_le(as_usize(buf.n_max_tokens), buf.slots)

====
